---- MODULE Spec2Model ----
(***************************************************************************)
(* Model of the Zerynth RN2483 LoRaWAN driver (src/rn2483.py).             *)
(*                                                                         *)
(* The driver is a single sequential actor talking to the radio module     *)
(* over a serial line.  Its state is the module-level globals (_ser,       *)
(* _appeui, ...), the call stack of the public call in progress, and the   *)
(* serial line: the commands written, the replies the module still has to  *)
(* send (owed) and the reply lines sent but not read yet (rx).             *)
(*                                                                         *)
(* Python values are records tagged by type, strings are sequences of      *)
(* one-character strings, a written command is the pair of its literal     *)
(* prefix and the value concatenated to it.                                *)
(***************************************************************************)
EXTENDS Integers, Sequences, FiniteSets, TLC

(***************************************************************************)
(* Python values                                                           *)
(***************************************************************************)
PyNone == [ty |-> "None"]
PyStr(s) == [ty |-> "str", s |-> s]
PyInt(n) == [ty |-> "int", n |-> n]
PyBool(b) == [ty |-> "bool", b |-> b]
PyBytes(b) == [ty |-> "bytearray", b |-> b]
PyTuple(a, b) == [ty |-> "tuple", a |-> a, b |-> b]

\* RESP_TIMEOUT = -1: the value _read returns when nothing arrived in time
RESP_TIMEOUT == PyInt(-1)

IsStr(v) == v.ty = "str"

(***************************************************************************)
(* Strings                                                                 *)
(***************************************************************************)
CR == "\r"
LF == "\n"

\* s.startswith(p)
StartsWith(s, p) == /\ Len(s) >= Len(p)
                    /\ SubSeq(s, 1, Len(p)) = p

RECURSIVE StripLeft(_)
StripLeft(s) == IF s # <<>> /\ Head(s) \in {CR, LF} THEN StripLeft(Tail(s)) ELSE s

RECURSIVE StripRight(_)
StripRight(s) == IF s # <<>> /\ s[Len(s)] \in {CR, LF}
                 THEN StripRight(SubSeq(s, 1, Len(s) - 1))
                 ELSE s

\* s.strip('\r\n'): drops every leading and trailing CR or LF
Strip(s) == StripRight(StripLeft(s))

\* s.split(' ')[-1]: the characters after the last blank (all of s when it has none)
RECURSIVE LastToken(_)
LastToken(s) == IF s = <<>> THEN <<>>
                ELSE IF s[Len(s)] = " " THEN <<>>
                ELSE LastToken(SubSeq(s, 1, Len(s) - 1)) \o <<s[Len(s)]>>

Digits == <<"0", "1", "2", "3", "4", "5", "6", "7", "8", "9">>
DigitVal(c) == (CHOOSE i \in 1..10 : Digits[i] = c) - 1
IsDigit(c) == \E i \in 1..10 : Digits[i] = c

\* str(n) for a non-negative integer
RECURSIVE StrOfNat(_)
StrOfNat(n) == IF n < 10 THEN <<Digits[n + 1]>>
               ELSE StrOfNat(n \div 10) \o <<Digits[(n % 10) + 1]>>

\* str(n)
StrOfInt(n) == IF n < 0 THEN <<"-">> \o StrOfNat(-n) ELSE StrOfNat(n)

RECURSIVE NatOfDigits(_, _)
NatOfDigits(s, acc) == IF s = <<>> THEN acc
                       ELSE NatOfDigits(Tail(s), acc * 10 + DigitVal(Head(s)))

\* whether int(s) parses: an optional sign and at least one decimal digit
IsDecimal(s) == LET d == IF s # <<>> /\ Head(s) \in {"-", "+"} THEN Tail(s) ELSE s
                IN  d # <<>> /\ \A i \in 1..Len(d) : IsDigit(d[i])

\* int(s) of a string that parses
IntOfStr(s) == IF Head(s) = "-" THEN 0 - NatOfDigits(Tail(s), 0)
               ELSE IF Head(s) = "+" THEN NatOfDigits(Tail(s), 0)
               ELSE NatOfDigits(s, 0)

(***************************************************************************)
(* Hex codec: _2str, _base16encode, _base16tobytearray                     *)
(***************************************************************************)
HexDigits == <<"0", "1", "2", "3", "4", "5", "6", "7", "8", "9",
               "a", "b", "c", "d", "e", "f">>
UpperHex == <<"A", "B", "C", "D", "E", "F">>

\* hex(n, prefix=''): the shortest lowercase base-16 numeral of n >= 0
RECURSIVE HexOf(_)
HexOf(n) == IF n < 16 THEN <<HexDigits[n + 1]>>
            ELSE HexOf(n \div 16) \o <<HexDigits[(n % 16) + 1]>>

\* _2str without the padding
_2str_nopad(r) == r

\* _2str(s): left-pads a one-character numeral with '0'
_2str(r) == IF Len(r) = 2 THEN r ELSE <<"0">> \o r

\* ord(c) for the characters the payloads use
Ord(c) == CASE c = "." -> 46
            [] c = "T" -> 84
            [] c = "N" -> 78
            [] c = "H" -> 72
            [] c = "i" -> 105

RECURSIVE EncodeEach(_)
EncodeEach(codes) == IF codes = <<>> THEN <<>>
                     ELSE _2str(HexOf(Head(codes))) \o EncodeEach(Tail(codes))

\* _base16encode(data): two digits per character of a string or per byte of a
\* bytearray; data of any other type adds nothing to the result
_base16encode(data) ==
    IF data.ty = "str" THEN EncodeEach([i \in 1..Len(data.s) |-> Ord(data.s[i])])
    ELSE IF data.ty = "bytearray" THEN EncodeEach(data.b)
    ELSE <<>>

IsHexChar(c) == \/ \E i \in 1..16 : HexDigits[i] = c
                \/ \E i \in 1..6 : UpperHex[i] = c
HexVal(c) == IF \E i \in 1..16 : HexDigits[i] = c
             THEN (CHOOSE i \in 1..16 : HexDigits[i] = c) - 1
             ELSE (CHOOSE i \in 1..6 : UpperHex[i] = c) + 9

\* whether int(s, 16) parses
IsBase16(s) == s # <<>> /\ \A i \in 1..Len(s) : IsHexChar(s[i])

RECURSIVE IntBase16(_, _)
IntBase16(s, acc) == IF s = <<>> THEN acc
                     ELSE IntBase16(Tail(s), acc * 16 + HexVal(Head(s)))

\* the pairs data[i*2:(i+1)*2] for i in range(len(data)//2)
HexPairs(data) == [i \in 1..(Len(data) \div 2) |-> SubSeq(data, 2 * i - 1, 2 * i)]

\* whether _base16tobytearray(data) returns (every pair parses)
DecodeOk(data) == \A i \in 1..(Len(data) \div 2) : IsBase16(HexPairs(data)[i])

\* _base16tobytearray with the slice data[i:i+2] in place of data[i*2:(i+1)*2]
_base16tobytearray_stride(data) ==
    [i \in 1..(Len(data) \div 2) |-> IntBase16(SubSeq(data, i, i + 1), 0)]

\* _base16tobytearray(data): len(data)//2 bytes, b[i] = int(data[i*2:(i+1)*2], 16)
_base16tobytearray(data) ==
    [i \in 1..(Len(data) \div 2) |-> IntBase16(HexPairs(data)[i], 0)]

(***************************************************************************)
(* The lines of the wire protocol                                          *)
(***************************************************************************)
T_ok == <<"o", "k">>
T_busy == <<"b", "u", "s", "y">>
T_invalid_param == <<"i", "n", "v", "a", "l", "i", "d", "_", "p", "a", "r", "a", "m">>
T_accepted == <<"a", "c", "c", "e", "p", "t", "e", "d">>
T_denied == <<"d", "e", "n", "i", "e", "d">>
T_mac_tx_ok == <<"m", "a", "c", "_", "t", "x", "_", "o", "k">>
T_radio_tx_ok == <<"r", "a", "d", "i", "o", "_", "t", "x", "_", "o", "k">>
T_mac_rx == <<"m", "a", "c", "_", "r", "x">>
T_mac_err == <<"m", "a", "c", "_", "e", "r", "r">>
T_on == <<"o", "n">>
T_off == <<"o", "f", "f">>
T_zero == <<"0">>
T_window == <<"1", "0", "0", "0">>
T_snr == <<"-", "5">>
T_pwr == <<"1", "4">>
T_hweui == <<"0", "0", "0", "4", "A", "3">>
T_banner == <<"R", "N", "2", "4", "8", "3">>

\* 'mac_rx <port> <hex>'
MacRx(hex) == T_mac_rx \o <<" ", "1", " ">> \o hex

\* downlink payloads the network may hand back, as sent on the wire
DownHex == { <<"4", "8", "6", "9">>, <<"0", "0", "f", "f">>, <<"2", "e">>, <<>> }

\* what the module sends for a line: the text and the terminator
Wire(s) == s \o <<CR, LF>>

\* the default radio settings of config()
D_pwridx == PyStr(<<"1">>)
D_adr == PyStr(T_off)
D_rx2 == PyStr(<<"3", " ", "8", "6", "9", "5", "2", "5", "0", "0", "0">>)
D_retx == PyInt(5)
D_ar == PyStr(T_off)

(***************************************************************************)
(* State                                                                   *)
(***************************************************************************)
VARIABLES
    _ser,      \* the serial port, None until init() opens it
    _appeui,   \* stored credentials
    _appkey,
    _deveui,
    _pwridx,   \* stored radio settings
    _adr,
    _rx2,
    _retx,
    _ar,
    stack,     \* call stack of the public call in progress, innermost frame first
    result,    \* how the last function ended: a return value or a raised exception
    call,      \* the public call in progress or just ended, with its arguments
    io,        \* what the call in progress did on the line: writes, reads, sleeps
    nak,       \* whether a discarded reply of the call in progress was not 'ok'
    asked,     \* the radio settings the latest config() was given
    applied,   \* the identity join() last wrote to the module
    owed,      \* the commands the module has received and not answered yet
    rx,        \* the lines the module sent that the driver has not read yet
    late       \* how many more reads may time out with the answer still to come

globals == <<_ser, _appeui, _appkey, _deveui, _pwridx, _adr, _rx2, _retx, _ar>>
identity == <<_appeui, _appkey, _deveui>>
radio == <<_pwridx, _adr, _rx2, _retx, _ar>>
line == <<owed, rx, late>>
vars == <<globals, stack, result, call, io, nak, asked, applied, owed, rx, late>>

(***************************************************************************)
(* Bounds and program constants                                            *)
(***************************************************************************)
\* how many reads, in one behaviour of SpecLate, may time out while the module's
\* answer is still to come (a late reply)
MaxLate == 1

\* the longest byte sequence given to _base16encode on its own
MaxBytes == 3
\* the longest string given to _base16tobytearray on its own
MaxHexLen == 3

DefaultTimeout == 2000   \* _read(timeout = 2000)
ExtTimeout == 30000      \* _read(timeout = 30000)
JoinAttempts == 3        \* for _ in range(3)
TxAttempts == 10         \* for _ in range(10)
Backoff == 1000          \* sleep(1000)

(***************************************************************************)
(* The radio module at the other end of the serial line                    *)
(***************************************************************************)
SERIAL == [ty |-> "serial"]

\* which family of replies a command gets
CmdKind(cmd) == CASE cmd = "mac join otaa" -> "join"
                  [] cmd \in {"mac tx uncnf 1 ", "mac tx cnf 1 "} -> "tx"
                  [] cmd = "sys get hweui" -> "hweui"
                  [] cmd = "mac get ar" -> "getar"
                  [] cmd = "mac pause" -> "pause"
                  [] cmd = "radio get snr" -> "snr"
                  [] cmd = "radio get pwr" -> "pwr"
                  [] OTHER -> "set"

\* the lines the module may answer with
Replies(kind) == CASE kind = "boot" -> {T_banner}
                   [] kind = "set" -> {T_ok, T_invalid_param}
                   [] kind = "hweui" -> {T_hweui}
                   [] kind = "getar" -> {T_on, T_off}
                   [] kind = "join" -> {T_ok, T_busy}
                   [] kind = "join2" -> {T_accepted, T_denied}
                   [] kind = "tx" -> {T_ok, T_busy, T_invalid_param}
                   [] kind = "tx2" -> {T_mac_tx_ok, T_radio_tx_ok, T_mac_err}
                                          \cup {MacRx(h) : h \in DownHex}
                   [] kind = "pause" -> {T_zero, T_window}
                   [] kind = "snr" -> {T_snr, T_invalid_param}
                   [] kind = "pwr" -> {T_pwr, T_invalid_param}

\* join and transmit answer 'ok' first and report the outcome in a second line
SecondPhase(kind) == CASE kind = "join" -> "join2"
                       [] kind = "tx" -> "tx2"
                       [] OTHER -> "none"

\* a new command makes everything still outstanding belong to an older command
Older(q) == [i \in 1..Len(q) |-> [q[i] EXCEPT !.cur = FALSE]]

\* whether the bytes end a line
Terminated(bytes) == bytes # <<>> /\ bytes[Len(bytes)] = LF

\* the receive buffer after the module sent bytes: they continue the last line
\* when the module has not terminated it, and start a new line otherwise
Sent(q, bytes, cur) ==
    IF q # <<>> /\ ~Terminated(q[Len(q)].line)
    THEN [q EXCEPT ![Len(q)] = [line |-> q[Len(q)].line \o bytes, cur |-> cur]]
    ELSE Append(q, [line |-> bytes, cur |-> cur])

\* The module answers the oldest command it has not answered yet.
ModuleReply ==
    /\ owed # <<>>
    /\ \E l \in Replies(Head(owed).kind) :
          /\ rx' = Sent(rx, Wire(l), Head(owed).cur)
          /\ owed' = IF l = T_ok /\ SecondPhase(Head(owed).kind) # "none"
                     THEN <<[Head(owed) EXCEPT !.kind = SecondPhase(Head(owed).kind)]>>
                              \o Tail(owed)
                     ELSE Tail(owed)
    /\ UNCHANGED <<globals, stack, result, call, io, nak, asked, applied, late>>

\* The module never answers the oldest command (or never reports its outcome).
ModuleSilent ==
    /\ owed # <<>>
    /\ owed' = Tail(owed)
    /\ UNCHANGED <<globals, stack, result, call, io, nak, asked, applied, rx, late>>

\* The module sends the text of its answer and never the line terminator.
ModulePartial ==
    /\ owed # <<>>
    /\ \E l \in Replies(Head(owed).kind) :
          rx' = Sent(rx, l, Head(owed).cur)
    /\ owed' = Tail(owed)
    /\ UNCHANGED <<globals, stack, result, call, io, nak, asked, applied, late>>

(***************************************************************************)
(* Control flow of the driver                                              *)
(***************************************************************************)
NoCall == [fn |-> "none"]
NoIdentity == [appeui |-> PyNone, appkey |-> PyNone, deveui |-> PyNone]
\* join() is running, as a public call or inside init()
InJoin == \E i \in 1..Len(stack) : stack[i].fn = "join"
NoResult == [kind |-> "none"]

Top == Head(stack)
Rest == Tail(stack)
At(fn, pc) == stack # <<>> /\ Top.fn = fn /\ Top.pc = pc

Goto(pc) == stack' = <<[Top EXCEPT !.pc = pc]>> \o Rest
Jump(frame) == stack' = <<frame>> \o Rest
Invoke(callee, retpc) == stack' = <<callee, [Top EXCEPT !.pc = retpc]>> \o Rest
Return(v) == stack' = Rest /\ result' = [kind |-> "return", val |-> v]
\* no function of the driver catches an exception: it ends the public call
Raise(exc) == stack' = <<>> /\ result' = [kind |-> "raise", exc |-> exc]

Idle == stack = <<>> /\ call = NoCall
Ended == stack = <<>> /\ call # NoCall
Begin(c, frame) == /\ Idle
                   /\ call' = c
                   /\ stack' = <<frame>>
                   /\ UNCHANGED <<globals, result, io, nak, asked, applied, line>>

\* _send(cmd): _ser.write(cmd + '\r\n').  cmd is the literal prefix and arg the
\* value the caller concatenates to it; a value that is not a string fails the
\* concatenation, and a port that was never opened fails the write.
_send(cmd, arg, next) ==
    IF ~IsStr(arg)
    THEN Raise("TypeError") /\ UNCHANGED <<owed, rx, io>>
    ELSE IF _ser = PyNone
    THEN Raise("AttributeError") /\ UNCHANGED <<owed, rx, io>>
    ELSE /\ Goto(next)
         /\ owed' = Append(Older(owed), [kind |-> CmdKind(cmd), cur |-> TRUE])
         /\ rx' = Older(rx)
         /\ io' = Append(io, [op |-> "write", cmd |-> cmd, arg |-> arg.s])
         /\ UNCHANGED result

NoArg == PyStr(<<>>)

\* _read(timeout): the next line without its terminator, or RESP_TIMEOUT when
\* no byte is available until the timer passes the timeout.  The read times out
\* when the module has nothing left to answer, or answers late (while late > 0);
\* otherwise the module answers, or gives up answering, before the timer ends.
\* Once a byte is available the timer is not looked at again: _ser.readline()
\* returns when the line is complete, and the read has no outcome before that.
_read ==
    IF rx # <<>>
    THEN IF Terminated(Head(rx).line)
         THEN {[res |-> PyStr(Strip(Head(rx).line)), tmo |-> FALSE]}
         ELSE {}
    ELSE IF owed = <<>> \/ late > 0
    THEN {[res |-> RESP_TIMEOUT, tmo |-> TRUE]}
    ELSE {}

\* the effect of a read on the line, and its record in the call's history
Took(r, timeout, shown) ==
    /\ rx' = IF r.tmo THEN rx ELSE Tail(rx)
    /\ late' = IF r.tmo /\ owed # <<>> THEN late - 1 ELSE late
    /\ owed' = owed
    /\ io' = Append(io, [op |-> "read", timeout |-> timeout, res |-> shown])

Discarded == [ty |-> "discarded"]

\* _send(cmd, discard_resp = True): the reply is read and dropped.  isSet says
\* that the command was a 'mac set ...'.
Discard(next, isSet) ==
    \E r \in _read :
       /\ Took(r, DefaultTimeout, Discarded)
       /\ nak' = (nak \/ (isSet /\ r.res # PyStr(T_ok)))
       /\ Goto(next)
       /\ UNCHANGED result

\* sleep(ms)
Sleep(ms) == io' = Append(io, [op |-> "sleep", ms |-> ms])

\* the caller takes the result of the call that ended
Caller ==
    /\ Ended
    /\ call' = NoCall
    /\ result' = NoResult
    /\ io' = <<>>
    /\ nak' = FALSE
    /\ UNCHANGED <<globals, stack, asked, applied, line>>

(***************************************************************************)
(* get_hweui(ser = None, rst = None)                                      *)
(***************************************************************************)
F_init(appeui, appkey, join_lora, short_startup) ==
    [fn |-> "init", pc |-> "start", appeui |-> appeui, appkey |-> appkey,
     join_lora |-> join_lora, short_startup |-> short_startup]
F_get_hweui(ser) == [fn |-> "get_hweui", pc |-> "start", ser |-> ser]

\* if ser is not None: init(ser, None, None, rst, short_startup = True)
get_hweui_start ==
    /\ At("get_hweui", "start")
    /\ IF Top.ser # PyNone
       THEN Invoke(F_init(PyNone, PyNone, TRUE, TRUE), "send")
       ELSE Goto("send")
    /\ UNCHANGED <<globals, result, call, io, nak, asked, applied, line>>

get_hweui_send ==
    /\ At("get_hweui", "send")
    /\ _send("sys get hweui", NoArg, "read")
    /\ UNCHANGED <<globals, call, nak, asked, applied, late>>

get_hweui_read ==
    /\ At("get_hweui", "read")
    /\ \E r \in _read :
          /\ Took(r, DefaultTimeout, r.res)
          /\ Return(r.res)
    /\ UNCHANGED <<globals, call, nak, asked, applied>>

(***************************************************************************)
(* get_ar(), set_ar(state), set_retransmissions(n)                        *)
(***************************************************************************)
F_get_ar == [fn |-> "get_ar", pc |-> "send"]
F_set_ar(state) == [fn |-> "set_ar", pc |-> "send", state |-> state]
F_set_retransmissions(n) == [fn |-> "set_retransmissions", pc |-> "send", n |-> n]

get_ar_send ==
    /\ At("get_ar", "send")
    /\ _send("mac get ar", NoArg, "read")
    /\ UNCHANGED <<globals, call, nak, asked, applied, late>>

get_ar_read ==
    /\ At("get_ar", "read")
    /\ \E r \in _read :
          /\ Took(r, DefaultTimeout, r.res)
          /\ _ar' = r.res
          /\ Return(PyNone)
    /\ UNCHANGED <<_ser, identity, _pwridx, _adr, _rx2, _retx, call, nak, asked, applied>>

set_ar_send ==
    /\ At("set_ar", "send")
    /\ _send("mac set ar ", Top.state, "discard")
    /\ UNCHANGED <<globals, call, nak, asked, applied, late>>

set_ar_discard ==
    /\ At("set_ar", "discard")
    /\ Discard("get", TRUE)
    /\ UNCHANGED <<globals, call, asked, applied>>

set_ar_get ==
    /\ At("set_ar", "get")
    /\ _send("mac get ar", NoArg, "check")
    /\ UNCHANGED <<globals, call, nak, asked, applied, late>>

\* _ar = _read(); if _ar != state: raise rn2483Exception
set_ar_check ==
    /\ At("set_ar", "check")
    /\ \E r \in _read :
          /\ Took(r, DefaultTimeout, r.res)
          /\ _ar' = r.res
          /\ IF r.res # Top.state THEN Raise("rn2483Exception") ELSE Return(PyNone)
    /\ UNCHANGED <<_ser, identity, _pwridx, _adr, _rx2, _retx, call, nak, asked, applied>>

\* str(n)
Str(v) == CASE v.ty = "int" -> PyStr(StrOfInt(v.n))
            [] v.ty = "str" -> v
            [] v.ty = "None" -> PyStr(<<"N", "o", "n", "e">>)

set_retransmissions_send ==
    /\ At("set_retransmissions", "send")
    /\ _send("mac set retx ", Str(Top.n), "check")
    /\ UNCHANGED <<globals, call, nak, asked, applied, late>>

\* set_retransmissions that does not look at the reply
set_retransmissions_check_ignore ==
    /\ At("set_retransmissions", "check")
    /\ \E r \in _read :
          /\ Took(r, DefaultTimeout, r.res)
          /\ Return(PyNone)
    /\ UNCHANGED <<globals, call, nak, asked, applied>>

\* if _read() != 'ok': raise rn2483Exception
set_retransmissions_check ==
    /\ At("set_retransmissions", "check")
    /\ \E r \in _read :
          /\ Took(r, DefaultTimeout, r.res)
          /\ IF r.res # PyStr(T_ok) THEN Raise("rn2483Exception") ELSE Return(PyNone)
    /\ UNCHANGED <<globals, call, nak, asked, applied>>

(***************************************************************************)
(* _get_startup_msg()                                                      *)
(***************************************************************************)
F_get_startup_msg == [fn |-> "_get_startup_msg", pc |-> "wait"]

\* while not _ser.available(): sleep(2)
_get_startup_msg_wait ==
    /\ At("_get_startup_msg", "wait")
    /\ rx # <<>>
    /\ Goto("drain")
    /\ UNCHANGED <<globals, result, call, io, nak, asked, applied, line>>

\* while _ser.available(): _read()
_get_startup_msg_drain ==
    /\ At("_get_startup_msg", "drain")
    /\ IF rx # <<>>
       THEN /\ \E r \in _read : Took(r, DefaultTimeout, Discarded)
            /\ UNCHANGED <<stack, result>>
       ELSE /\ Return(PyNone)
            /\ UNCHANGED <<io, line>>
    /\ UNCHANGED <<globals, call, nak, asked, applied>>

(***************************************************************************)
(* config(appeui, appkey, deveui, pwridx, adr, rx2, retx, ar)             *)
(***************************************************************************)
Radio(pwridx, adr, rx2, retx, ar) ==
    [pwridx |-> pwridx, adr |-> adr, rx2 |-> rx2, retx |-> retx, ar |-> ar]
DefaultRadio == Radio(D_pwridx, D_adr, D_rx2, D_retx, D_ar)

F_config(appeui, appkey, deveui, req) ==
    [fn |-> "config", pc |-> "start", appeui |-> appeui, appkey |-> appkey,
     deveui |-> deveui, req |-> req]

\* config() that stores whatever it is given
KeepFirst_overwrite(stored, given) == given

\* if _x is None: _x = x
KeepFirst(stored, given) == IF stored = PyNone THEN given ELSE stored

config_start ==
    /\ At("config", "start")
    /\ _appeui' = KeepFirst(_appeui, Top.appeui)
    /\ _appkey' = KeepFirst(_appkey, Top.appkey)
    /\ IF _deveui = PyNone
       THEN IF Top.deveui = PyNone
            THEN Invoke(F_get_hweui(PyNone), "hweui") /\ UNCHANGED _deveui
            ELSE Goto("radio") /\ _deveui' = Top.deveui
       ELSE Goto("radio") /\ UNCHANGED _deveui
    /\ UNCHANGED <<_ser, radio, result, call, io, nak, asked, applied, line>>

\* _deveui = get_hweui()
config_hweui ==
    /\ At("config", "hweui")
    /\ _deveui' = result.val
    /\ Goto("radio")
    /\ UNCHANGED <<_ser, _appeui, _appkey, radio, result, call, io, nak, asked, applied, line>>

\* what config() stores as radio settings for the settings it was given
StoredRadio(req) == DefaultRadio

config_radio ==
    /\ At("config", "radio")
    /\ _pwridx' = StoredRadio(Top.req).pwridx
    /\ _adr' = StoredRadio(Top.req).adr
    /\ _rx2' = StoredRadio(Top.req).rx2
    /\ _retx' = StoredRadio(Top.req).retx
    /\ _ar' = StoredRadio(Top.req).ar
    /\ asked' = Top.req
    /\ Return(PyNone)
    /\ UNCHANGED <<_ser, identity, call, io, nak, applied, line>>

(***************************************************************************)
(* set_config()                                                            *)
(***************************************************************************)
F_set_config == [fn |-> "set_config", pc |-> "send", k |-> 1]

\* the 'mac set' commands of set_config whose reply is discarded, in order
SetCmds == << [cmd |-> "mac set appeui ", val |-> _appeui],
              [cmd |-> "mac set appkey ", val |-> _appkey],
              [cmd |-> "mac set deveui ", val |-> _deveui],
              [cmd |-> "mac set pwridx ", val |-> _pwridx],
              [cmd |-> "mac set adr ", val |-> _adr],
              [cmd |-> "mac set rx2 ", val |-> _rx2] >>

\* the identity the module has been given once join() has written cmd with val
Applied(cmd, val) ==
    IF ~InJoin \/ ~IsStr(val) \/ _ser = PyNone THEN applied
    ELSE CASE cmd = "mac set appeui " -> [applied EXCEPT !.appeui = val]
           [] cmd = "mac set appkey " -> [applied EXCEPT !.appkey = val]
           [] cmd = "mac set deveui " -> [applied EXCEPT !.deveui = val]
           [] OTHER -> applied

set_config_send ==
    /\ At("set_config", "send")
    /\ _send(SetCmds[Top.k].cmd, SetCmds[Top.k].val, "discard")
    /\ applied' = Applied(SetCmds[Top.k].cmd, SetCmds[Top.k].val)
    /\ UNCHANGED <<globals, call, nak, asked, late>>

set_config_discard ==
    /\ At("set_config", "discard")
    /\ \E r \in _read :
          /\ Took(r, DefaultTimeout, Discarded)
          /\ nak' = (nak \/ r.res # PyStr(T_ok))
          /\ IF Top.k < Len(SetCmds)
             THEN Jump([Top EXCEPT !.pc = "send", !.k = Top.k + 1])
             ELSE Goto("retx")
    /\ UNCHANGED <<globals, result, call, asked, applied>>

\* set_retransmissions(_retx)
set_config_retx ==
    /\ At("set_config", "retx")
    /\ Invoke(F_set_retransmissions(_retx), "ar")
    /\ UNCHANGED <<globals, result, call, io, nak, asked, applied, line>>

\* set_ar(_ar)
set_config_ar ==
    /\ At("set_config", "ar")
    /\ Invoke(F_set_ar(_ar), "save")
    /\ UNCHANGED <<globals, result, call, io, nak, asked, applied, line>>

set_config_save ==
    /\ At("set_config", "save")
    /\ _send("mac save", NoArg, "saved")
    /\ UNCHANGED <<globals, call, nak, asked, applied, late>>

set_config_saved ==
    /\ At("set_config", "saved")
    /\ \E r \in _read :
          /\ Took(r, DefaultTimeout, Discarded)
          /\ Return(PyNone)
    /\ UNCHANGED <<globals, call, nak, asked, applied>>

(***************************************************************************)
(* join()                                                                  *)
(***************************************************************************)
F_join == [fn |-> "join", pc |-> "reset", i |-> 0, joined |-> FALSE]

join_reset ==
    /\ At("join", "reset")
    /\ _send("mac reset 868", NoArg, "reset_d")
    /\ UNCHANGED <<globals, call, nak, asked, applied, late>>

\* the reply to 'mac reset 868' is dropped, then set_config()
join_reset_d ==
    /\ At("join", "reset_d")
    /\ \E r \in _read :
          /\ Took(r, DefaultTimeout, Discarded)
          /\ Invoke(F_set_config, "for")
    /\ UNCHANGED <<globals, result, call, nak, asked, applied>>

\* for _ in range(3): ... ; return joined
join_for ==
    /\ At("join", "for")
    /\ IF Top.i < JoinAttempts
       THEN Goto("send") /\ UNCHANGED result
       ELSE Return(PyBool(Top.joined))
    /\ UNCHANGED <<globals, call, io, nak, asked, applied, line>>

join_send ==
    /\ At("join", "send")
    /\ _send("mac join otaa", NoArg, "send_d")
    /\ UNCHANGED <<globals, call, nak, asked, applied, late>>

join_send_d ==
    /\ At("join", "send_d")
    /\ Discard("read", FALSE)
    /\ UNCHANGED <<globals, call, asked, applied>>

\* join() with a loop that does not stop on 'denied'
JoinOutcome_nobreak(res) ==
    IF res # RESP_TIMEOUT /\ StartsWith(res.s, T_accepted) THEN "accepted" ELSE "retry"

\* what the loop of join() does with the line of the extended read
JoinOutcome(res) ==
    IF res # RESP_TIMEOUT /\ StartsWith(res.s, T_accepted) THEN "accepted"
    ELSE IF res # RESP_TIMEOUT /\ StartsWith(res.s, T_denied) THEN "denied"
    ELSE "retry"

join_read ==
    /\ At("join", "read")
    /\ \E r \in _read :
          /\ Took(r, ExtTimeout, r.res)
          /\ CASE JoinOutcome(r.res) = "accepted" -> Return(PyBool(TRUE))
               [] JoinOutcome(r.res) = "denied" -> Return(PyBool(Top.joined))
               [] OTHER -> Goto("sleep") /\ UNCHANGED result
    /\ UNCHANGED <<globals, call, nak, asked, applied>>

join_sleep ==
    /\ At("join", "sleep")
    /\ Sleep(Backoff)
    /\ Jump([Top EXCEPT !.pc = "for", !.i = Top.i + 1])
    /\ UNCHANGED <<globals, result, call, nak, asked, applied, line>>

(***************************************************************************)
(* init(ser, appeui, appkey, rst, join_lora = True, short_startup = False) *)
(***************************************************************************)
\* if _ser is None: pulse the reset pin, open the port, drain the boot banner
init_start ==
    /\ At("init", "start")
    /\ IF _ser = PyNone
       THEN /\ _ser' = SERIAL
            /\ owed' = Append(owed, [kind |-> "boot", cur |-> TRUE])
            /\ Invoke(F_get_startup_msg, "started")
       ELSE /\ Goto("store")
            /\ UNCHANGED <<_ser, owed>>
    /\ UNCHANGED <<identity, radio, result, call, io, nak, asked, applied, rx, late>>

\* if short_startup: return
init_started ==
    /\ At("init", "started")
    /\ IF Top.short_startup
       THEN Return(PyNone)
       ELSE Goto("store") /\ UNCHANGED result
    /\ UNCHANGED <<globals, call, io, nak, asked, applied, line>>

\* _appeui = appeui; _appkey = appkey; if join_lora: config(...)
init_store ==
    /\ At("init", "store")
    /\ _appeui' = Top.appeui
    /\ _appkey' = Top.appkey
    /\ IF Top.join_lora
       THEN Invoke(F_config(Top.appeui, Top.appkey, PyNone, DefaultRadio), "join")
            /\ UNCHANGED result
       ELSE Return(PyNone)
    /\ UNCHANGED <<_ser, _deveui, radio, call, io, nak, asked, applied, line>>

\* joined = join()
init_join ==
    /\ At("init", "join")
    /\ Invoke(F_join, "ret")
    /\ UNCHANGED <<globals, result, call, io, nak, asked, applied, line>>

\* return joined
init_ret ==
    /\ At("init", "ret")
    /\ Return(result.val)
    /\ UNCHANGED <<globals, call, io, nak, asked, applied, line>>

(***************************************************************************)
(* tx_uncnf(data), tx_cnf(data), _tx(cmd)                                 *)
(***************************************************************************)
F_tx(cmd, hex) == [fn |-> "_tx", pc |-> "for", cmd |-> cmd, hex |-> hex, i |-> 0]

\* return _tx('mac tx uncnf 1 ' + _base16encode(data))
tx_uncnf(data) == F_tx("mac tx uncnf 1 ", PyStr(_base16encode(data)))
\* return _tx('mac tx cnf 1 ' + _base16encode(data))
tx_cnf(data) == F_tx("mac tx cnf 1 ", PyStr(_base16encode(data)))

\* for _ in range(10): ... ; the function ends without a return statement
_tx_for ==
    /\ At("_tx", "for")
    /\ IF Top.i < TxAttempts
       THEN Goto("send") /\ UNCHANGED result
       ELSE Return(PyNone)
    /\ UNCHANGED <<globals, call, io, nak, asked, applied, line>>

_tx_send ==
    /\ At("_tx", "send")
    /\ _send(Top.cmd, Top.hex, "read")
    /\ UNCHANGED <<globals, call, nak, asked, applied, late>>

\* _tx that treats 'busy' like any other unexpected first reply
TxFirst_busyfatal(res) == IF res = PyStr(T_ok) THEN "completion" ELSE "raise"

\* what _tx does with the first reply
TxFirst(res) == IF res = PyStr(T_ok) THEN "completion"
                ELSE IF ~(res = PyStr(T_busy)) THEN "raise"
                ELSE "backoff"

_tx_read ==
    /\ At("_tx", "read")
    /\ \E r \in _read :
          /\ Took(r, DefaultTimeout, r.res)
          /\ CASE TxFirst(r.res) = "completion" -> Goto("completion") /\ UNCHANGED result
               [] TxFirst(r.res) = "raise" -> Raise("rn2483Exception")
               [] OTHER -> Goto("sleep") /\ UNCHANGED result
    /\ UNCHANGED <<globals, call, nak, asked, applied>>

\* how _tx ends on the line of the extended read
TxCompletion(res) ==
    IF res = PyStr(T_mac_tx_ok) \/ res = PyStr(T_radio_tx_ok)
    THEN [kind |-> "return", val |-> PyBool(TRUE)]
    ELSE IF ~IsStr(res)
    THEN [kind |-> "raise", exc |-> "AttributeError"]
    ELSE IF StartsWith(res.s, T_mac_rx)
    THEN IF DecodeOk(LastToken(res.s))
         THEN [kind |-> "return",
               val |-> PyTuple(PyBool(TRUE), PyBytes(_base16tobytearray(LastToken(res.s))))]
         ELSE [kind |-> "raise", exc |-> "ValueError"]
    ELSE [kind |-> "raise", exc |-> "rn2483Exception"]

_tx_completion ==
    /\ At("_tx", "completion")
    /\ \E r \in _read :
          /\ Took(r, ExtTimeout, r.res)
          /\ stack' = IF TxCompletion(r.res).kind = "return" THEN Rest ELSE <<>>
          /\ result' = TxCompletion(r.res)
    /\ UNCHANGED <<globals, call, nak, asked, applied>>

_tx_sleep ==
    /\ At("_tx", "sleep")
    /\ Sleep(Backoff)
    /\ Jump([Top EXCEPT !.pc = "for", !.i = Top.i + 1])
    /\ UNCHANGED <<globals, result, call, nak, asked, applied, line>>

(***************************************************************************)
(* get_snr(), get_pwr(), _pause(), _resume()                              *)
(***************************************************************************)
F_radio_get(fn) == [fn |-> fn, pc |-> "pause", val |-> PyNone]
F_pause == [fn |-> "_pause", pc |-> "send"]
F_resume == [fn |-> "_resume", pc |-> "send"]
RadioFns == {"get_snr", "get_pwr"}
RadioCmd(fn) == IF fn = "get_snr" THEN "radio get snr" ELSE "radio get pwr"
AtRadio(pc) == stack # <<>> /\ Top.fn \in RadioFns /\ Top.pc = pc

_pause_send ==
    /\ At("_pause", "send")
    /\ _send("mac pause", NoArg, "read")
    /\ UNCHANGED <<globals, call, nak, asked, applied, late>>

_pause_read ==
    /\ At("_pause", "read")
    /\ \E r \in _read :
          /\ Took(r, DefaultTimeout, r.res)
          /\ Return(r.res)
    /\ UNCHANGED <<globals, call, nak, asked, applied>>

_resume_send ==
    /\ At("_resume", "send")
    /\ _send("mac resume", NoArg, "read")
    /\ UNCHANGED <<globals, call, nak, asked, applied, late>>

_resume_read ==
    /\ At("_resume", "read")
    /\ \E r \in _read :
          /\ Took(r, DefaultTimeout, r.res)
          /\ Return(r.res)
    /\ UNCHANGED <<globals, call, nak, asked, applied>>

\* t = _pause()
radio_get_pause ==
    /\ AtRadio("pause")
    /\ Invoke(F_pause, "paused")
    /\ UNCHANGED <<globals, result, call, io, nak, asked, applied, line>>

\* if t == '0': raise rn2483Exception
radio_get_paused ==
    /\ AtRadio("paused")
    /\ IF result.val = PyStr(T_zero)
       THEN Raise("rn2483Exception")
       ELSE Goto("query") /\ UNCHANGED result
    /\ UNCHANGED <<globals, call, io, nak, asked, applied, line>>

radio_get_query ==
    /\ AtRadio("query")
    /\ _send(RadioCmd(Top.fn), NoArg, "value")
    /\ UNCHANGED <<globals, call, nak, asked, applied, late>>

\* get_snr()/get_pwr() that parse the value before resuming: snr = int(_read())
radio_get_value_parsefirst ==
    /\ AtRadio("value")
    /\ \E r \in _read :
          /\ Took(r, DefaultTimeout, r.res)
          /\ IF r.res.ty = "str" /\ ~IsDecimal(r.res.s)
             THEN Raise("ValueError")
             ELSE /\ stack' = <<F_resume, [Top EXCEPT !.pc = "resumed", !.val = r.res]>>
                                 \o Rest
                  /\ UNCHANGED result
    /\ UNCHANGED <<globals, call, nak, asked, applied>>

\* snr = _read(); res = _resume()
radio_get_value ==
    /\ AtRadio("value")
    /\ \E r \in _read :
          /\ Took(r, DefaultTimeout, r.res)
          /\ stack' = <<F_resume, [Top EXCEPT !.pc = "resumed", !.val = r.res]>> \o Rest
    /\ UNCHANGED <<globals, result, call, nak, asked, applied>>

\* int(x): a number stays, a decimal string is parsed, anything else fails
ToInt(v) == IF v.ty = "int" THEN [kind |-> "return", val |-> v]
          ELSE IF v.ty = "str" /\ IsDecimal(v.s)
          THEN [kind |-> "return", val |-> PyInt(IntOfStr(v.s))]
          ELSE [kind |-> "raise", exc |-> "ValueError"]

\* if not res == 'ok': raise rn2483Exception; return int(snr)
radio_get_resumed ==
    /\ AtRadio("resumed")
    /\ IF ~(result.val = PyStr(T_ok))
       THEN Raise("rn2483Exception")
       ELSE /\ stack' = IF ToInt(Top.val).kind = "return" THEN Rest ELSE <<>>
            /\ result' = ToInt(Top.val)
    /\ UNCHANGED <<globals, call, io, nak, asked, applied, line>>

(***************************************************************************)
(* The application: the public calls and the arguments it makes them with  *)
(***************************************************************************)
A1 == PyStr(<<"A", "1">>)
A2 == PyStr(<<"A", "2">>)
K1 == PyStr(<<"K", "1">>)
K2 == PyStr(<<"K", "2">>)
E1 == PyStr(<<"E", "1">>)
E2 == PyStr(<<"E", "2">>)

\* (appeui, appkey, deveui) as given to config()
Credentials == { <<PyNone, PyNone, PyNone>>, <<A1, K1, PyNone>>, <<A1, K1, E1>>,
                 <<A2, K2, PyNone>>, <<A2, K2, E2>> }
\* (appeui, appkey) as given to init()
InitCredentials == { <<PyNone, PyNone>>, <<A1, K1>>, <<A2, K2>> }

\* radio settings that differ from the defaults in every field
OtherRadio == Radio(PyStr(<<"5">>), PyStr(T_on), PyStr(<<"0", " ", "8", "6", "8">>),
                    PyInt(7), PyStr(T_on))
RadioChoices == {DefaultRadio, OtherRadio}

Payloads == { PyStr(<<".">>), PyStr(<<"H", "i">>), PyBytes(<<0, 255>>) }

call_init ==
    \E c \in InitCredentials, j \in BOOLEAN :
       Begin([fn |-> "init", appeui |-> c[1], appkey |-> c[2], join_lora |-> j],
             F_init(c[1], c[2], j, FALSE))

call_config ==
    \E c \in Credentials, q \in RadioChoices :
       Begin([fn |-> "config", appeui |-> c[1], appkey |-> c[2], deveui |-> c[3],
              req |-> q],
             F_config(c[1], c[2], c[3], q))

call_get_hweui ==
    \E ser \in {PyNone, SERIAL} :
       Begin([fn |-> "get_hweui", ser |-> ser, open |-> _ser # PyNone], F_get_hweui(ser))

call_set_config == Begin([fn |-> "set_config"], F_set_config)

call_join == Begin([fn |-> "join"], F_join)

call_get_ar == Begin([fn |-> "get_ar"], F_get_ar)

call_set_ar ==
    \E st \in {PyStr(T_on), PyStr(T_off)} :
       Begin([fn |-> "set_ar", state |-> st], F_set_ar(st))

call_set_retransmissions ==
    \E n \in {PyInt(7)} :
       Begin([fn |-> "set_retransmissions", n |-> n], F_set_retransmissions(n))

call_tx_uncnf ==
    \E d \in Payloads : Begin([fn |-> "tx_uncnf", data |-> d], tx_uncnf(d))

call_tx_cnf ==
    \E d \in Payloads : Begin([fn |-> "tx_cnf", data |-> d], tx_cnf(d))

call_radio_get ==
    \E fn \in RadioFns : Begin([fn |-> fn], F_radio_get(fn))

(***************************************************************************)
(* The specification                                                       *)
(***************************************************************************)
Init ==
    /\ _ser = PyNone
    /\ _appeui = PyNone
    /\ _appkey = PyNone
    /\ _deveui = PyNone
    /\ _pwridx = PyNone
    /\ _adr = PyNone
    /\ _rx2 = PyNone
    /\ _retx = PyNone
    /\ _ar = PyNone
    /\ stack = <<>>
    /\ result = NoResult
    /\ call = NoCall
    /\ io = <<>>
    /\ nak = FALSE
    /\ asked = PyNone
    /\ applied = NoIdentity
    /\ owed = <<>>
    /\ rx = <<>>
    /\ late = 0

Next ==
    \/ call_init \/ call_config \/ call_get_hweui \/ call_set_config \/ call_join
    \/ call_get_ar \/ call_set_ar \/ call_set_retransmissions
    \/ call_tx_uncnf \/ call_tx_cnf \/ call_radio_get
    \/ Caller
    \/ get_hweui_start \/ get_hweui_send \/ get_hweui_read
    \/ get_ar_send \/ get_ar_read
    \/ set_ar_send \/ set_ar_discard \/ set_ar_get \/ set_ar_check
    \/ set_retransmissions_send \/ set_retransmissions_check
    \/ _get_startup_msg_wait \/ _get_startup_msg_drain
    \/ config_start \/ config_hweui \/ config_radio
    \/ set_config_send \/ set_config_discard \/ set_config_retx \/ set_config_ar
    \/ set_config_save \/ set_config_saved
    \/ join_reset \/ join_reset_d \/ join_for \/ join_send \/ join_send_d
    \/ join_read \/ join_sleep
    \/ init_start \/ init_started \/ init_store \/ init_join \/ init_ret
    \/ _tx_for \/ _tx_send \/ _tx_read \/ _tx_completion \/ _tx_sleep
    \/ _pause_send \/ _pause_read \/ _resume_send \/ _resume_read
    \/ radio_get_pause \/ radio_get_paused \/ radio_get_query
    \/ radio_get_value \/ radio_get_resumed
    \/ ModuleReply \/ ModuleSilent

\* The module answers every command in time or never.
Spec == Init /\ [][Next]_vars

\* The link is open and configured (after init(.., join_lora = False) and
\* config(A1, K1, E1)), and the module may answer late.
InitLate ==
    /\ _ser = SERIAL
    /\ _appeui = A1
    /\ _appkey = K1
    /\ _deveui = E1
    /\ _pwridx = D_pwridx
    /\ _adr = D_adr
    /\ _rx2 = D_rx2
    /\ _retx = D_retx
    /\ _ar = D_ar
    /\ stack = <<>>
    /\ result = NoResult
    /\ call = NoCall
    /\ io = <<>>
    /\ nak = FALSE
    /\ asked = DefaultRadio
    /\ applied = NoIdentity
    /\ owed = <<>>
    /\ rx = <<>>
    /\ late = MaxLate

NextLate ==
    \/ call_join \/ call_get_ar \/ call_radio_get
    \/ Caller
    \/ get_ar_send \/ get_ar_read
    \/ set_ar_send \/ set_ar_discard \/ set_ar_get \/ set_ar_check
    \/ set_retransmissions_send \/ set_retransmissions_check
    \/ set_config_send \/ set_config_discard \/ set_config_retx \/ set_config_ar
    \/ set_config_save \/ set_config_saved
    \/ join_reset \/ join_reset_d \/ join_for \/ join_send \/ join_send_d
    \/ join_read \/ join_sleep
    \/ _pause_send \/ _pause_read \/ _resume_send \/ _resume_read
    \/ radio_get_pause \/ radio_get_paused \/ radio_get_query
    \/ radio_get_value \/ radio_get_resumed
    \/ ModuleReply \/ ModuleSilent

\* join, auto-reply and radio queries on a line whose replies may come late
SpecLate == InitLate /\ [][NextLate]_vars

NextTxLate ==
    \/ call_tx_uncnf \/ call_tx_cnf
    \/ Caller
    \/ _tx_for \/ _tx_send \/ _tx_read \/ _tx_completion \/ _tx_sleep
    \/ ModuleReply \/ ModuleSilent

\* transmit calls on a line whose replies may come late
SpecTxLate == InitLate /\ [][NextTxLate]_vars

\* The program keeps running: a step that can be taken is taken in the end (the
\* driver is one sequential thread on a line whose other end is the module).
SpecFair == Init /\ [][Next]_vars /\ WF_vars(Next)

NextRead ==
    \/ call_get_ar \/ call_set_ar \/ call_set_retransmissions \/ call_radio_get
    \/ Caller
    \/ get_ar_send \/ get_ar_read
    \/ set_ar_send \/ set_ar_discard \/ set_ar_get \/ set_ar_check
    \/ set_retransmissions_send \/ set_retransmissions_check
    \/ _pause_send \/ _pause_read \/ _resume_send \/ _resume_read
    \/ radio_get_pause \/ radio_get_paused \/ radio_get_query
    \/ radio_get_value \/ radio_get_resumed
    \/ ModuleReply \/ ModuleSilent \/ ModulePartial

\* the short commands on a line where the module may answer in time, late,
\* never, or with a line it does not terminate
SpecRead == InitLate /\ [][NextRead]_vars /\ WF_vars(NextRead)

(***************************************************************************)
(* The hex codec on its own                                                *)
(***************************************************************************)
Byte == 0..255
SampleBytes == {0, 10, 255}
\* the byte sequences of up to MaxBytes bytes with any byte value at one position
\* and a sample value at the others
ByteSeqs ==
    {<<>>} \cup UNION { { [b EXCEPT ![p] = v] :
                            b \in [1..n -> SampleBytes], p \in 1..n, v \in Byte } :
                        n \in 1..MaxBytes }

RECURSIVE StringsOver(_, _)
StringsOver(alphabet, n) ==
    IF n = 0 THEN {<<>>}
    ELSE StringsOver(alphabet, n - 1)
            \cup { Append(t, c) : t \in [1..(n - 1) -> alphabet], c \in alphabet }
\* the strings of up to MaxHexLen characters given to the decoder
HexStrings == StringsOver({"4", "e", "F", "z"}, MaxHexLen)

F_hex(pc, data) == [fn |-> "hex", pc |-> pc, data |-> data]

\* encoded = _base16encode(data)
hex_encode ==
    /\ At("hex", "encode")
    /\ Jump(F_hex("decode", PyStr(_base16encode(Top.data))))
    /\ UNCHANGED <<globals, result, call, io, nak, asked, applied, line>>

\* _base16tobytearray(encoded): int(.., 16) fails on a pair that is no numeral
hex_decode ==
    /\ At("hex", "decode")
    /\ IF DecodeOk(Top.data.s)
       THEN Return(PyBytes(_base16tobytearray(Top.data.s)))
       ELSE Raise("ValueError")
    /\ UNCHANGED <<globals, call, io, nak, asked, applied, line>>

InitHex ==
    /\ _ser = PyNone
    /\ _appeui = PyNone
    /\ _appkey = PyNone
    /\ _deveui = PyNone
    /\ _pwridx = PyNone
    /\ _adr = PyNone
    /\ _rx2 = PyNone
    /\ _retx = PyNone
    /\ _ar = PyNone
    /\ \/ \E b \in ByteSeqs :
             /\ call = [fn |-> "_base16encode", data |-> PyBytes(b)]
             /\ stack = <<F_hex("encode", PyBytes(b))>>
       \/ \E t \in HexStrings :
             /\ call = [fn |-> "_base16tobytearray", data |-> PyStr(t)]
             /\ stack = <<F_hex("decode", PyStr(t))>>
    /\ result = NoResult
    /\ io = <<>>
    /\ nak = FALSE
    /\ asked = PyNone
    /\ applied = NoIdentity
    /\ owed = <<>>
    /\ rx = <<>>
    /\ late = 0

NextHex == hex_encode \/ hex_decode

\* the codec applied to byte sequences (encode, then decode) and to strings (decode)
SpecHex == InitHex /\ [][NextHex]_vars

(***************************************************************************)
(* Properties                                                              *)
(***************************************************************************)
IsWrite(e, cmd) == e.op = "write" /\ e.cmd = cmd
IsRead(e, timeout) == e.op = "read" /\ e.timeout = timeout
\* how many times the call in progress has written cmd
Written(cmd) == Cardinality({i \in 1..Len(io) : IsWrite(io[i], cmd)})
\* a line that starts with the token p was read
ReadsToken(e, p) == e.res.ty = "str" /\ StartsWith(e.res.s, p)

\* the last thing the call did on the line was to read v
LastRead(v) == io # <<>> /\ io[Len(io)].op = "read" /\ io[Len(io)].res = v

TxCmds == {"mac tx uncnf 1 ", "mac tx cnf 1 "}
InTx == call.fn \in {"tx_uncnf", "tx_cnf"}
TxWrites == Cardinality({i \in 1..Len(io) : io[i].op = "write" /\ io[i].cmd \in TxCmds})
BusyReads == {i \in 1..Len(io) : IsRead(io[i], DefaultTimeout) /\ io[i].res = PyStr(T_busy)}

\* join() as a public call, or as the last step of init(.., join_lora = True)
JoinReturned == /\ Ended
                /\ result.kind = "return"
                /\ \/ call.fn = "join"
                   \/ call.fn = "init" /\ call.join_lora

\* C1: one call of join() writes 'mac join otaa' at most 3 times; it returns True
\* exactly when one of its extended-timeout reads gave a line starting with
\* 'accepted'; and after an extended-timeout read that gave a line starting with
\* 'denied' it writes no further 'mac join otaa' and returns False.
C1_JoinBound ==
    /\ Written("mac join otaa") <= 3
    /\ JoinReturned =>
          (result.val = PyBool(TRUE)
             <=> \E i \in 1..Len(io) : /\ IsRead(io[i], ExtTimeout)
                                      /\ ReadsToken(io[i], T_accepted))
    /\ \A i \in 1..Len(io) :
          (IsRead(io[i], ExtTimeout) /\ ReadsToken(io[i], T_denied)) =>
             /\ \A j \in (i + 1)..Len(io) : ~IsWrite(io[j], "mac join otaa")
             /\ JoinReturned => result.val = PyBool(FALSE)

\* join() returned True on its second attempt, after one backoff
C1_Witness ==
    /\ JoinReturned
    /\ call.fn = "join"
    /\ result.val = PyBool(TRUE)
    /\ Written("mac join otaa") = 2
    /\ \E i \in 1..Len(io) : io[i] = [op |-> "sleep", ms |-> 1000]

\* join() returned False on 'denied' at its first attempt
C1_WitnessDenied ==
    /\ JoinReturned
    /\ result.val = PyBool(FALSE)
    /\ Written("mac join otaa") = 1

\* C2: one transmit call writes its command at most 10 times, and a first reply
\* 'busy' never raises: the call sleeps, and while attempts remain it writes the
\* same command again; k times 'busy' then 'ok' and 'mac_tx_ok' return True
\* having written the command k + 1 times.
C2_BusyRetries ==
    InTx =>
       /\ TxWrites <= 10
       /\ \A i \in BusyReads :
             /\ i = Len(io) => (stack # <<>> /\ Top.pc = "sleep")
             /\ i < Len(io) => io[i + 1] = [op |-> "sleep", ms |-> 1000]
             /\ i + 1 < Len(io) => io[i + 2] = io[i - 1]
             /\ (i + 1 = Len(io) /\ Ended) => (TxWrites = 10 /\ result.kind # "raise")
       /\ \A i \in 1..Len(io) : IsWrite(io[i], io[1].cmd) => io[i] = io[1]
       /\ (Ended /\ LastRead(PyStr(T_mac_tx_ok)) /\ IsRead(io[Len(io)], ExtTimeout)) =>
             /\ result = [kind |-> "return", val |-> PyBool(TRUE)]
             /\ TxWrites = Cardinality(BusyReads) + 1

\* three times 'busy', then 'ok' and 'mac_tx_ok': success on the fourth attempt
C2_Witness ==
    /\ InTx
    /\ Ended
    /\ result = [kind |-> "return", val |-> PyBool(TRUE)]
    /\ Cardinality(BusyReads) = 3
    /\ TxWrites = 4

\* all 10 attempts were answered 'busy'
TxExhausted == InTx /\ Ended /\ Cardinality(BusyReads) = 10

\* C3: a transmit call whose 10 attempts were all answered 'busy' ends by raising
\* the transmit failure error.
C3_ExhaustedRaises ==
    TxExhausted => result = [kind |-> "raise", exc |-> "rn2483Exception"]

\* C4: after a first reply 'ok', a second line 'mac_tx_ok' or 'radio_tx_ok' makes
\* the call return True, and a second line 'mac_rx <port> <hex>' makes it return
\* True with the bytes whose two-digit hex encoding is <hex>; either way the call
\* ends on that read.
C4_Completion ==
    InTx =>
       \A i \in 1..Len(io) :
          IsRead(io[i], ExtTimeout) =>
             /\ io[i - 1].res = PyStr(T_ok)
             /\ io[i].res \in {PyStr(T_mac_tx_ok), PyStr(T_radio_tx_ok)} =>
                   /\ i = Len(io) /\ Ended
                   /\ result = [kind |-> "return", val |-> PyBool(TRUE)]
             /\ \A h \in DownHex :
                   io[i].res = PyStr(MacRx(h)) =>
                      /\ i = Len(io) /\ Ended
                      /\ result.kind = "return"
                      /\ result.val.ty = "tuple"
                      /\ result.val.a = PyBool(TRUE)
                      /\ result.val.b.ty = "bytearray"
                      /\ Len(result.val.b.b) * 2 = Len(h)
                      /\ _base16encode(result.val.b) = h

\* 'ok' then 'mac_rx 1 4869': the call returned the two bytes of "Hi"
C4_Witness ==
    /\ InTx
    /\ Ended
    /\ LastRead(PyStr(MacRx(<<"4", "8", "6", "9">>)))
    /\ result = [kind |-> "return",
                 val |-> PyTuple(PyBool(TRUE), PyBytes(<<72, 105>>))]

\* C5: after a first reply 'ok', any second-phase outcome other than 'mac_tx_ok',
\* 'radio_tx_ok' or a 'mac_rx ...' line, a timeout included, ends the call with
\* rn2483Exception, and the command is not written again.
C5_CompletionFailure ==
    InTx =>
       \A i \in 1..Len(io) :
          ( /\ IsRead(io[i], ExtTimeout)
            /\ io[i].res \notin {PyStr(T_mac_tx_ok), PyStr(T_radio_tx_ok)}
            /\ ~ReadsToken(io[i], T_mac_rx) ) =>
               /\ i = Len(io) /\ Ended
               /\ result = [kind |-> "raise", exc |-> "rn2483Exception"]

InRadioGet == call.fn \in RadioFns
\* _pause() returned something other than '0': the call goes on to the radio
PauseGranted == /\ Len(io) >= 2
                /\ IsWrite(io[1], "mac pause")
                /\ io[2].op = "read"
                /\ io[2].res # PyStr(T_zero)
WriteIndexes == {i \in 1..Len(io) : io[i].op = "write"}
LastWrite == io[CHOOSE i \in WriteIndexes : \A j \in WriteIndexes : j <= i]

\* C6: a get_snr()/get_pwr() call whose 'mac pause' was granted (its reply was
\* not "0") has written 'mac resume' exactly once when it returns or raises,
\* whatever the radio value and the reply to the resume were, and 'mac resume'
\* is the last command it wrote.
C6_ResumeOnce ==
    InRadioGet =>
       /\ Written("mac resume") <= 1
       /\ (Ended /\ PauseGranted) =>
             /\ Written("mac resume") = 1
             /\ LastWrite.cmd = "mac resume"

\* the radio value did not parse: the call raised after resuming
C6_Witness ==
    /\ InRadioGet
    /\ Ended
    /\ PauseGranted
    /\ result = [kind |-> "raise", exc |-> "ValueError"]
    /\ Written("mac resume") = 1

\* the reply to 'mac resume' was not 'ok': the call raised, having resumed once
C6_WitnessResumeNak ==
    /\ InRadioGet
    /\ Ended
    /\ PauseGranted
    /\ LastRead(PyStr(T_invalid_param))
    /\ result = [kind |-> "raise", exc |-> "rn2483Exception"]
    /\ Written("mac resume") = 1

InConfig == \E i \in 1..Len(stack) : stack[i].fn = "config"

\* C7: while config() runs, a credential that is already set (not None) does
\* not change: a second config() with other values keeps those of the first.
C7_Sticky ==
    [][InConfig =>
          /\ _appeui # PyNone => _appeui' = _appeui
          /\ _appkey # PyNone => _appkey' = _appkey
          /\ _deveui # PyNone => _deveui' = _deveui]_vars

\* config() was given three values that all differ from the stored ones, and ended
C7_Witness ==
    /\ Ended
    /\ call.fn = "config"
    /\ result.kind = "return"
    /\ call.appeui # PyNone /\ call.appkey # PyNone /\ call.deveui # PyNone
    /\ _appeui \notin {PyNone, call.appeui}
    /\ _appkey \notin {PyNone, call.appkey}
    /\ _deveui \notin {PyNone, call.deveui}

\* C8: set_config()/join() write the radio settings the latest config() was given.
C8_RadioAsGiven ==
    (call.fn \in {"join", "set_config"} /\ asked # PyNone) =>
       \A i \in 1..Len(io) :
          /\ IsWrite(io[i], "mac set pwridx ") => io[i].arg = asked.pwridx.s
          /\ IsWrite(io[i], "mac set adr ") => io[i].arg = asked.adr.s
          /\ IsWrite(io[i], "mac set rx2 ") => io[i].arg = asked.rx2.s
          /\ IsWrite(io[i], "mac set retx ") => io[i].arg = Str(asked.retx).s
          /\ IsWrite(io[i], "mac set ar ") => io[i].arg = asked.ar.s

\* C9: a call that applied the configuration and got a reply other than 'ok' to
\* one of its 'mac set ...' commands ends by raising.
C9_SetNakRaises ==
    (Ended /\ nak /\ call.fn \in {"set_config", "join", "init"}) =>
       result.kind = "raise"

\* C10: every reply the module owes, and every line it sent that was not read
\* yet, belongs to the command written last: no command is written while an
\* earlier one is unanswered, and no read takes the answer to an older command.
C10_OneInFlight ==
    /\ \A i \in 1..Len(owed) : owed[i].cur
    /\ \A i \in 1..Len(rx) : rx[i].cur

\* the places where the driver calls _read
ReadSites == { <<"get_hweui", "read">>, <<"get_ar", "read">>, <<"set_ar", "discard">>,
               <<"set_ar", "check">>, <<"set_retransmissions", "check">>,
               <<"set_config", "discard">>, <<"set_config", "saved">>,
               <<"join", "reset_d">>, <<"join", "send_d">>, <<"join", "read">>,
               <<"_tx", "read">>, <<"_tx", "completion">>,
               <<"_pause", "read">>, <<"_resume", "read">>,
               <<"get_snr", "value">>, <<"get_pwr", "value">> }
\* the driver is inside _read
Reading == /\ stack # <<>>
           /\ \/ <<Top.fn, Top.pc>> \in ReadSites
              \/ At("_get_startup_msg", "drain") /\ rx # <<>>

\* C11: every _read(timeout) ends, with a line or with the timeout value,
\* whatever the module does, also when it sends bytes and never a terminator.
C11_ReadEnds == Reading ~> ~Reading

\* init(), or get_hweui(ser, rst), is running
Booting == stack # <<>> /\ call.fn \in {"init", "get_hweui"}

\* C12: init() and get_hweui(ser, rst) end, by returning or raising, also when
\* the module sends nothing after the reset pulse.
C12_InitBounded == Booting ~> (stack = <<>>)

RoundTrip == call.fn = "_base16encode"
\* the two characters that encode the i-th byte
PairAt(enc, i) == SubSeq(enc, 2 * i - 1, 2 * i)

\* C13: the encoding of a byte sequence b has 2 * len(b) characters, all of them
\* in 0-9a-f, the i-th pair being the numeral of b[i]; and decoding it gives b.
C13_RoundTrip ==
    RoundTrip =>
       /\ At("hex", "decode") =>
             /\ Len(Top.data.s) = 2 * Len(call.data.b)
             /\ \A k \in 1..Len(Top.data.s) : \E d \in 1..16 : HexDigits[d] = Top.data.s[k]
             /\ \A i \in 1..Len(call.data.b) :
                   PairAt(Top.data.s, i) = <<HexDigits[(call.data.b[i] \div 16) + 1],
                                            HexDigits[(call.data.b[i] % 16) + 1]>>
       /\ Ended => result = [kind |-> "return", val |-> call.data]

\* the bytes 0, 171, 255 came back from their encoding
C13_Witness ==
    /\ RoundTrip
    /\ Ended
    /\ call.data = PyBytes(<<0, 171, 255>>)
    /\ result = [kind |-> "return", val |-> PyBytes(<<0, 171, 255>>)]

\* a string of odd length, or with a pair that is no base-16 numeral
Base16Chars == {"0", "1", "2", "3", "4", "5", "6", "7", "8", "9",
                "a", "b", "c", "d", "e", "f", "A", "B", "C", "D", "E", "F"}
Malformed(t) == \/ Len(t) % 2 = 1
                \/ \E k \in 1..Len(t) : t[k] \notin Base16Chars

\* C14: decoding a string of odd length, or with a pair that is not valid hex,
\* fails with the decoding error and returns no bytes.
C14_MalformedFails ==
    (call.fn = "_base16tobytearray" /\ Ended /\ Malformed(call.data.s)) =>
       result = [kind |-> "raise", exc |-> "ValueError"]

\* a join() has written all three of appeui, appkey and deveui
AppliedAll == /\ applied.appeui # PyNone
              /\ applied.appkey # PyNone
              /\ applied.deveui # PyNone

\* C15: once a join() has written the identity to the module, the stored
\* identity does not change any more, and a later join() writes the same values.
C15_IdentityFixed ==
    [][AppliedAll => /\ _appeui' = _appeui
                     /\ _appkey' = _appkey
                     /\ _deveui' = _deveui
                     /\ applied' = applied]_vars

\* C16: the stored radio settings (_pwridx, _adr, _rx2, _retx, _ar) change only
\* while config() runs: no step of any other operation changes them.
C16_RadioFrame ==
    [][~InConfig => /\ _pwridx' = _pwridx
                    /\ _adr' = _adr
                    /\ _rx2' = _rx2
                    /\ _retx' = _retx
                    /\ _ar' = _ar]_vars

\* the commands join() writes before it tries to join, in order
JoinOrder == << "mac reset 868", "mac set appeui ", "mac set appkey ", "mac set deveui ",
                "mac set pwridx ", "mac set adr ", "mac set rx2 ", "mac set retx ",
                "mac set ar ", "mac get ar", "mac save" >>
IsAnyWrite(e) == e.op = "write"
\* the commands the call in progress has written, in order
Writes == SelectSeq(io, IsAnyWrite)
\* the reply to 'mac set retx' was read and was not 'ok'
RetxNak == \E i \in 2..Len(io) : /\ IsWrite(io[i - 1], "mac set retx ")
                                  /\ io[i].op = "read"
                                  /\ io[i].res # PyStr(T_ok)
\* the read-back of 'mac get ar' differs from the value written by 'mac set ar'
ArMismatch == \E i \in 4..Len(io) : /\ IsWrite(io[i - 3], "mac set ar ")
                                     /\ IsWrite(io[i - 1], "mac get ar")
                                     /\ io[i].op = "read"
                                     /\ io[i].res # PyStr(io[i - 3].arg)

\* C17: one join() call writes 'mac reset 868', the six 'mac set' commands, 'mac
\* set retx', 'mac set ar', 'mac get ar', 'mac save' in this order and only then
\* 'mac join otaa' (at most 3 times); when the reply to 'mac set retx' is not 'ok'
\* or the read-back of the auto-reply differs from the value written, the call
\* has raised and has written neither 'mac save' nor 'mac join otaa'.
C17_JoinOrder ==
    call.fn = "join" =>
       /\ Len(Writes) <= Len(JoinOrder) + JoinAttempts
       /\ \A i \in 1..Len(Writes) :
             Writes[i].cmd = IF i <= Len(JoinOrder) THEN JoinOrder[i] ELSE "mac join otaa"
       /\ (RetxNak \/ ArMismatch) =>
             /\ Ended
             /\ result = [kind |-> "raise", exc |-> "rn2483Exception"]
             /\ Written("mac save") = 0
             /\ Written("mac join otaa") = 0

\* the auto-reply read back as 'on' after 'mac set ar off': join() raised before
\* 'mac save'
C17_Witness ==
    /\ call.fn = "join"
    /\ Ended
    /\ ArMismatch
    /\ ~RetxNak
    /\ Len(Writes) = 10
    /\ result.kind = "raise"

\* join() wrote all its commands and tried to join twice
C17_WitnessJoined ==
    /\ call.fn = "join"
    /\ Ended
    /\ Len(Writes) = Len(JoinOrder) + 2
    /\ result = [kind |-> "return", val |-> PyBool(TRUE)]

\* get_hweui() was called with the link already open
HweuiAfterInit == call.fn = "get_hweui" /\ call.open

\* C18: a get_hweui call made after init(), with or without the ser and rst
\* arguments, writes nothing but 'sys get hweui', once, reads once, and leaves
\* the stored appeui, appkey and deveui as they were.
C18_HweuiPure ==
    [][HweuiAfterInit =>
          /\ _appeui' = _appeui
          /\ _appkey' = _appkey
          /\ _deveui' = _deveui
          /\ \A i \in 1..Len(io') :
                /\ io'[i].op = "write" => i = 1 /\ io'[i].cmd = "sys get hweui"
                /\ io'[i].op = "read" => i = 2]_vars

\* C19: the stored device EUI is never the value _read returns on a timeout.
C19_DeveuiNotTimeout == _deveui # RESP_TIMEOUT

\* C20: get_snr()/get_pwr() write their 'radio get ...' command only after the
\* module granted the pause: the reply to 'mac pause' was a line other than "0".
\* After "0", and after no reply at all, the radio is not queried.
C20_PauseFirst ==
    InRadioGet =>
       \A i \in 1..Len(io) :
          (io[i].op = "write" /\ io[i].cmd \in {"radio get snr", "radio get pwr"}) =>
             /\ i = 3
             /\ IsWrite(io[1], "mac pause")
             /\ io[2].op = "read"
             /\ io[2].res.ty = "str"
             /\ io[2].res # PyStr(T_zero)

====
